---- MODULE Spec2Model ----
(***************************************************************************)
(* Model of pysar/plot_network.py: the linear pipeline of main() and the    *)
(* option handling of cmdLineParse() / read_template2inps().                *)
(*                                                                         *)
(* The command line and the contents of the files the run reads are the    *)
(* environment (argv, files); they are fixed during a run.  Values that    *)
(* main() obtains from library readers (pnet.get_date12_list,              *)
(* ut.spatial_average, ut.check_drop_ifgram, ...) are what those files      *)
(* hold.  Plot styling options (fontsize, dpi, mask_file, coh_thres, ...)   *)
(* only parametrise library calls and are left out.                         *)
(*                                                                         *)
(* A date6 is a 'YYMMDD' string, modelled by the number it spells; a       *)
(* date12 'YYMMDD-YYMMDD' is the pair <<date6, date6>>; a date8 is a        *)
(* 'YYYYMMDD' string, modelled by the number it spells.  A Python value    *)
(* that may be None is a sequence of length at most one: None is << >>,    *)
(* a list l is <<l>>.                                                       *)
(***************************************************************************)
EXTENDS Integers, Sequences, FiniteSets, TLC

VARIABLES argv, files, pc, raised, trace, backend, inps, k,
          date8_list, pbase_list, date12_list,
          date12_list_keep, date12_list_drop, date8_list_drop,
          figs, saved, txtFile, shown

vars == <<argv, files, pc, raised, trace, backend, inps, k,
          date8_list, pbase_list, date12_list,
          date12_list_keep, date12_list_drop, date8_list_drop,
          figs, saved, txtFile, shown>>

env == <<argv, files>>

----------------------------------------------------------------------------
(* Bounds of the model *)

\* longest pair list held by the input file
MaxPairs == 2
\* longest pair list held by the coherence file
MaxCoh == 3

----------------------------------------------------------------------------
(* Values *)

None == << >>
Some(x) == <<x>>

\* acquisition dates as they occur in pair identifiers ('YYMMDD')
Date6s == {960101, 70709, 70824}

\* 'YYMMDD' -> 'YYYYMMDD'
yyyymmdd(d) == IF d \div 100000 = 9 THEN 19000000 + d ELSE 20000000 + d

Date8s == {yyyymmdd(d) : d \in Date6s}

\* pairs 'date1-date2' with date1 acquired before date2
Date12s == {p \in Date6s \X Date6s : yyyymmdd(p[1]) < yyyymmdd(p[2])}

\* coherence values; "nan" is the undefined value
CohValues == {"nan", "0.3", "0.8"}
isnan(v) == v = "nan"

\* perpendicular baseline of an acquisition, as stored with the dates
Bperp(d8) == d8 % 1000

ToSet(s) == {s[i] : i \in 1..Len(s)}

\* lists without repetition, of length at most n, over S
Lists(S, n) == UNION {{s \in [1..i -> S] : \A a, b \in 1..i : a # b => s[a] # s[b]} : i \in 0..n}

\* order of the strings 'YYMMDD-YYMMDD' (fixed width, so the order of the digits)
Date12Leq(p, q) == p[1] < q[1] \/ (p[1] = q[1] /\ p[2] <= q[2])

\* Python sorted() of a set of numbers (of fixed-width digit strings)
RECURSIVE sortedInts(_)
sortedInts(S) ==
    IF S = {} THEN << >>
    ELSE LET m == CHOOSE x \in S : \A y \in S : x <= y
         IN <<m>> \o sortedInts(S \ {m})

\* Python sorted() of a set of date12 strings
RECURSIVE sortedDate12(_)
sortedDate12(S) ==
    IF S = {} THEN << >>
    ELSE LET m == CHOOSE x \in S : \A y \in S : Date12Leq(x, y)
         IN <<m>> \o sortedDate12(S \ {m})

\* Python list.index(x): the first position holding x
index(s, x) == CHOOSE i \in 1..Len(s) : s[i] = x /\ \A j \in 1..(i-1) : s[j] # x

\* truth value of an optional list: None and [] are false
Truthy(opt) == opt # None /\ opt[1] # << >>

InputFile == "input"
multi_group_hdf5_file == {"interferograms", "coherence", "wrapped"}

os_path_isfile(name) == name = InputFile \/ name \in files.existing

----------------------------------------------------------------------------
(* Environment: command lines and file contents *)

ArgvSet == [ext : {".h5", ".he5", ".txt"},
            disp_fig : BOOLEAN, save_fig : BOOLEAN, save_list : BOOLEAN,
            template_file : {"", "template.txt"},
            coherence_file : {"", "coherence.h5"}]

\* the acquisitions (as date8) that the pairs of a list name
DatesOf(l) == {yyyymmdd(l[i][1]) : i \in 1..Len(l)} \cup {yyyymmdd(l[i][2]) : i \in 1..Len(l)}

FileTypes == {"interferograms", "coherence", "timeseries"}

\* The input space is covered by three families of runs.
\* (1) every command line, template and file type, over one small network
OptionRuns ==
    LET d12 == <<<<960101, 70709>>, <<70709, 70824>>>>
    IN {[argv |-> a,
         files |-> [FILE_TYPE |-> ft, date12 |-> d12, keep |-> <<d12[2]>>,
                    dates |-> sortedInts(DatesOf(d12)),
                    template |-> t, existing |-> ex,
                    coh_date12 |-> <<d12[2], <<960101, 70824>>, d12[1]>>, coh_vals |-> cv]] :
          a \in ArgvSet, ft \in FileTypes, t \in {"absent", "auto", "other.h5"},
          ex \in SUBSET {"coherence.h5"}, cv \in {<<"0.8", "nan", "0.3">>, <<"nan", "nan", "nan">>}}

\* (2) every pair list, kept-pair list and date list, for every kind of input file
DropRuns ==
    UNION {{[argv |-> [ext |-> e, disp_fig |-> FALSE, save_fig |-> FALSE, save_list |-> TRUE,
                       template_file |-> "", coherence_file |-> "coherence.h5"],
             files |-> [FILE_TYPE |-> ft, date12 |-> d12, keep |-> sortedDate12(K),
                        dates |-> sortedInts(D \cup DatesOf(d12)),
                        template |-> "absent", existing |-> {},
                        coh_date12 |-> << >>, coh_vals |-> << >>]] :
              e \in {".h5", ".he5", ".txt"}, ft \in FileTypes,
              K \in SUBSET ToSet(d12), D \in SUBSET Date8s} :
           d12 \in Lists(Date12s, MaxPairs)}

\* (3) every pair list against every coherence source
CoherenceRuns ==
    UNION {{[argv |-> [ext |-> ".txt", disp_fig |-> dp, save_fig |-> FALSE, save_list |-> TRUE,
                       template_file |-> "", coherence_file |-> "coherence.h5"],
             files |-> [FILE_TYPE |-> "interferograms", date12 |-> d12, keep |-> << >>,
                        dates |-> sortedInts(DatesOf(d12)),
                        template |-> "absent", existing |-> {"coherence.h5"},
                        coh_date12 |-> cd, coh_vals |-> cv]] :
              dp \in BOOLEAN, d12 \in Lists(Date12s, MaxPairs),
              cv \in [1..Len(cd) -> CohValues]} :
           cd \in Lists(Date12s, MaxCoh)}

----------------------------------------------------------------------------
(* cmdLineParse and read_template2inps *)

\* cmdLineParse without lines 150-151
cmdLineParseKeepsSave(a) ==
    [disp_fig |-> a.disp_fig,
     save_fig |-> a.save_fig,
     save_list |-> a.save_list,
     template_file |-> a.template_file,
     coherence_file |-> a.coherence_file,
     coherence_list |-> None,
     coh_date12_list |-> << >>]

cmdLineParse(a) ==
    [disp_fig |-> a.disp_fig,
     save_fig |-> IF ~a.disp_fig THEN TRUE ELSE a.save_fig,
     save_list |-> a.save_list,
     template_file |-> a.template_file,
     coherence_file |-> a.coherence_file,
     coherence_list |-> None,
     coh_date12_list |-> << >>]

\* inps is a Namespace object, always true, so it is never re-parsed
read_template2inps(template, i) ==
    IF template = "absent" THEN i
    ELSE IF template = "auto" THEN [i EXCEPT !.coherence_file = "coherence.h5"]
    ELSE [i EXCEPT !.coherence_file = template]

NoInps == [disp_fig |-> TRUE, save_fig |-> FALSE, save_list |-> FALSE,
           template_file |-> "", coherence_file |-> "",
           coherence_list |-> None, coh_date12_list |-> << >>]

----------------------------------------------------------------------------
(* main: drop detection and coherence alignment *)

\* line 196 without the subtraction of the kept pairs
Date12DropAll(all, keep) == sortedDate12(ToSet(all))

Date12Drop(all, keep) == sortedDate12(ToSet(all) \ ToSet(keep))

\* line 203 without the conversion of the kept dates to date8
Date8DropUnconverted(d8, keep) ==
    LET m_dates == [i \in 1..Len(keep) |-> keep[i][1]]
        s_dates == [i \in 1..Len(keep) |-> keep[i][2]]
        date8_list_keep == sortedInts(ToSet(m_dates \o s_dates))
    IN sortedInts(ToSet(d8) \ ToSet(date8_list_keep))

Date8Drop(d8, keep) ==
    LET m_dates == [i \in 1..Len(keep) |-> keep[i][1]]
        s_dates == [i \in 1..Len(keep) |-> keep[i][2]]
        both == sortedInts(ToSet(m_dates \o s_dates))
        date8_list_keep == [i \in 1..Len(both) |-> yyyymmdd(both[i])]
    IN sortedInts(ToSet(d8) \ ToSet(date8_list_keep))

\* lines 215-217: a list whose values are all nan is replaced by None
AfterNan(vals) ==
    IF \A i \in 1..Len(vals) : isnan(vals[i]) THEN None ELSE Some(vals)

StrictSuperset(A, B) == B \subseteq A /\ A # B

\* line 226 subscripts the coherence list; it is None after line 217
NoneSubscripted(vals, coh_d12, d12) ==
    /\ ToSet(d12) \subseteq ToSet(coh_d12)
    /\ StrictSuperset(ToSet(coh_d12), ToSet(d12))
    /\ AfterNan(vals) = None
    /\ d12 # << >>

\* lines 215-226 without the assignment of line 223
AlignCoherenceKeepsUncovered(vals, coh_d12, d12) ==
    LET cl == AfterNan(vals)
    IN IF StrictSuperset(ToSet(coh_d12), ToSet(d12)) /\ cl # None
       THEN Some([i \in 1..Len(d12) |-> cl[1][index(coh_d12, d12[i])]])
       ELSE cl

\* lines 215-226: the coherence list the stage leaves in inps
AlignCoherence(vals, coh_d12, d12) ==
    LET cl == AfterNan(vals)
    IN IF ~(ToSet(d12) \subseteq ToSet(coh_d12)) THEN None
       ELSE IF StrictSuperset(ToSet(coh_d12), ToSet(d12))
            THEN IF cl = None
                 THEN (IF d12 = << >> THEN Some(<< >>) ELSE None)
                 ELSE Some([i \in 1..Len(d12) |-> cl[1][index(coh_d12, d12[i])]])
       ELSE cl

----------------------------------------------------------------------------
(* The pipeline of main() *)

Init ==
    /\ \E r \in OptionRuns \cup DropRuns \cup CoherenceRuns :
          argv = r.argv /\ files = r.files
    /\ pc = "parse"
    /\ raised = "none"
    /\ trace = << >>
    /\ backend = "default"
    /\ inps = NoInps
    /\ k = "unbound"
    /\ date8_list = << >>
    /\ pbase_list = << >>
    /\ date12_list = << >>
    /\ date12_list_keep = << >>
    /\ date12_list_drop = << >>
    /\ date8_list_drop = << >>
    /\ figs = << >>
    /\ saved = << >>
    /\ txtFile = None
    /\ shown = FALSE

\* lines 158-160
ParseArgs ==
    /\ pc = "parse"
    /\ inps' = cmdLineParse(argv)
    /\ backend' = IF ~cmdLineParse(argv).disp_fig THEN "Agg" ELSE backend
    /\ trace' = Append(trace, "parse")
    /\ pc' = "template"
    /\ UNCHANGED <<env, raised, k, date8_list, pbase_list, date12_list,
                   date12_list_keep, date12_list_drop, date8_list_drop,
                   figs, saved, txtFile, shown>>

\* lines 161-162
LoadTemplate ==
    /\ pc = "template"
    /\ IF inps.template_file # ""
       THEN /\ inps' = read_template2inps(files.template, inps)
            /\ trace' = Append(trace, "template")
       ELSE UNCHANGED <<inps, trace>>
    /\ pc' = "read_dates"
    /\ UNCHANGED <<env, raised, backend, k, date8_list, pbase_list, date12_list,
                   date12_list_keep, date12_list_drop, date8_list_drop,
                   figs, saved, txtFile, shown>>

\* lines 166-176 without the test of lines 171-172
ReadDatesH5Unchecked ==
    /\ pc = "read_dates"
    /\ argv.ext \in {".h5"}
    /\ k' = files.FILE_TYPE
    /\ inps' = IF inps.coherence_file = "" /\ files.FILE_TYPE = "coherence"
               THEN [inps EXCEPT !.coherence_file = InputFile]
               ELSE inps
    /\ pbase_list' = [i \in 1..Len(files.dates) |-> Bperp(files.dates[i])]
    /\ date8_list' = files.dates
    /\ trace' = Append(trace, "read_dates")
    /\ pc' = "read_pairs"
    /\ UNCHANGED <<env, raised, backend, date12_list,
                   date12_list_keep, date12_list_drop, date8_list_drop,
                   figs, saved, txtFile, shown>>

\* lines 166-176: dates and baselines from the HDF5 file
ReadDatesH5 ==
    /\ pc = "read_dates"
    /\ argv.ext \in {".h5"}
    /\ k' = files.FILE_TYPE
    /\ IF ~(files.FILE_TYPE \in multi_group_hdf5_file)
       THEN /\ raised' = "ValueError"
            /\ pc' = "error"
            /\ UNCHANGED <<inps, pbase_list, date8_list, trace>>
       ELSE /\ inps' = IF inps.coherence_file = "" /\ files.FILE_TYPE = "coherence"
                       THEN [inps EXCEPT !.coherence_file = InputFile]
                       ELSE inps
            /\ pbase_list' = [i \in 1..Len(files.dates) |-> Bperp(files.dates[i])]
            /\ date8_list' = files.dates
            /\ trace' = Append(trace, "read_dates")
            /\ pc' = "read_pairs"
            /\ UNCHANGED raised
    /\ UNCHANGED <<env, backend, date12_list,
                   date12_list_keep, date12_list_drop, date8_list_drop,
                   figs, saved, txtFile, shown>>

\* lines 177-179: dates and baselines from the baseline list file
ReadDatesBaseline ==
    /\ pc = "read_dates"
    /\ ~(argv.ext \in {".h5"})
    /\ pbase_list' = [i \in 1..Len(files.dates) |-> Bperp(files.dates[i])]
    /\ date8_list' = files.dates
    /\ trace' = Append(trace, "read_dates")
    /\ pc' = "read_pairs"
    /\ UNCHANGED <<env, raised, backend, inps, k, date12_list,
                   date12_list_keep, date12_list_drop, date8_list_drop,
                   figs, saved, txtFile, shown>>

\* lines 183-185
ReadPairs ==
    /\ pc = "read_pairs"
    /\ date12_list' = files.date12
    /\ trace' = Append(trace, "read_pairs")
    /\ pc' = "read_drop"
    /\ UNCHANGED <<env, raised, backend, inps, k, date8_list, pbase_list,
                   date12_list_keep, date12_list_drop, date8_list_drop,
                   figs, saved, txtFile, shown>>

\* lines 187-205
ReadDrop ==
    /\ pc = "read_drop"
    /\ IF argv.ext \in {".h5", ".he5"}
       THEN /\ trace' = Append(trace, "read_drop")
            /\ IF k = "unbound"
               THEN \* h5[k]: the local k was never assigned
                    /\ raised' = "NameError"
                    /\ pc' = "error"
                    /\ UNCHANGED <<date12_list_keep, date12_list_drop, date8_list_drop>>
               ELSE /\ date12_list_keep' = files.keep
                    /\ date12_list_drop' = Date12Drop(date12_list, files.keep)
                    /\ date8_list_drop' = Date8Drop(date8_list, files.keep)
                    /\ pc' = "read_coh"
                    /\ UNCHANGED raised
       ELSE /\ pc' = "read_coh"
            /\ UNCHANGED <<trace, raised, date12_list_keep, date12_list_drop, date8_list_drop>>
    /\ UNCHANGED <<env, backend, inps, k, date8_list, pbase_list, date12_list,
                   figs, saved, txtFile, shown>>

\* lines 207-226
ReadCoherence ==
    /\ pc = "read_coh"
    /\ IF inps.coherence_file # "" /\ os_path_isfile(inps.coherence_file)
       THEN /\ trace' = Append(trace, "read_coh")
            /\ inps' = [inps EXCEPT
                    !.coherence_list = AlignCoherence(files.coh_vals, files.coh_date12, date12_list),
                    !.coh_date12_list = files.coh_date12]
            /\ IF NoneSubscripted(files.coh_vals, files.coh_date12, date12_list)
               THEN /\ raised' = "TypeError"
                    /\ pc' = "error"
               ELSE /\ pc' = "fig_bperp"
                    /\ UNCHANGED raised
       ELSE /\ inps' = [inps EXCEPT !.coherence_list = None]
            /\ pc' = "fig_bperp"
            /\ UNCHANGED <<trace, raised>>
    /\ UNCHANGED <<env, backend, k, date8_list, pbase_list, date12_list,
                   date12_list_keep, date12_list_drop, date8_list_drop,
                   figs, saved, txtFile, shown>>

\* one figure: produced, and written when save_fig
Figure(name) ==
    /\ figs' = Append(figs, name)
    /\ saved' = IF inps.save_fig THEN Append(saved, name) ELSE saved

\* lines 232-243
FigBperpHistory ==
    /\ pc = "fig_bperp"
    /\ Figure("BperpHistory")
    /\ trace' = Append(trace, "fig_bperp")
    /\ pc' = "fig_cohmat"
    /\ UNCHANGED <<env, raised, backend, inps, k, date8_list, pbase_list, date12_list,
                   date12_list_keep, date12_list_drop, date8_list_drop, txtFile, shown>>

\* lines 245-258
FigCoherenceMatrix ==
    /\ pc = "fig_cohmat"
    /\ IF Truthy(inps.coherence_list)
       THEN /\ Figure("CoherenceMatrix")
            /\ trace' = Append(trace, "fig_cohmat")
       ELSE UNCHANGED <<figs, saved, trace>>
    /\ pc' = "fig_cohhist"
    /\ UNCHANGED <<env, raised, backend, inps, k, date8_list, pbase_list, date12_list,
                   date12_list_keep, date12_list_drop, date8_list_drop, txtFile, shown>>

\* lines 260-272
FigCoherenceHistory ==
    /\ pc = "fig_cohhist"
    /\ IF Truthy(inps.coherence_list)
       THEN /\ Figure("CoherenceHistory")
            /\ trace' = Append(trace, "fig_cohhist")
       ELSE UNCHANGED <<figs, saved, trace>>
    /\ pc' = "fig_network"
    /\ UNCHANGED <<env, raised, backend, inps, k, date8_list, pbase_list, date12_list,
                   date12_list_keep, date12_list_drop, date8_list_drop, txtFile, shown>>

\* lines 274-285
FigNetwork ==
    /\ pc = "fig_network"
    /\ Figure("Network")
    /\ trace' = Append(trace, "fig_network")
    /\ pc' = "save_list"
    /\ UNCHANGED <<env, raised, backend, inps, k, date8_list, pbase_list, date12_list,
                   date12_list_keep, date12_list_drop, date8_list_drop, txtFile, shown>>

\* lines 287-290 placed before the network figure of lines 274-285
SaveListBeforeNetwork ==
    /\ pc = "fig_network"
    /\ Figure("Network")
    /\ IF inps.save_list
       THEN /\ txtFile' = Some(date12_list)
            /\ trace' = trace \o <<"save_list", "fig_network">>
       ELSE /\ trace' = Append(trace, "fig_network")
            /\ UNCHANGED txtFile
    /\ pc' = "display"
    /\ UNCHANGED <<env, raised, backend, inps, k, date8_list, pbase_list, date12_list,
                   date12_list_keep, date12_list_drop, date8_list_drop, shown>>

\* lines 287-290 writing the pairs that are not dropped
SaveListKeptOnly ==
    /\ pc = "save_list"
    /\ IF inps.save_list
       THEN /\ txtFile' = Some(SelectSeq(date12_list, LAMBDA p : p \notin ToSet(date12_list_drop)))
            /\ trace' = Append(trace, "save_list")
       ELSE UNCHANGED <<txtFile, trace>>
    /\ pc' = "display"
    /\ UNCHANGED <<env, raised, backend, inps, k, date8_list, pbase_list, date12_list,
                   date12_list_keep, date12_list_drop, date8_list_drop, figs, saved, shown>>

\* lines 287-290
SaveList ==
    /\ pc = "save_list"
    /\ IF inps.save_list
       THEN /\ txtFile' = Some(date12_list)
            /\ trace' = Append(trace, "save_list")
       ELSE UNCHANGED <<txtFile, trace>>
    /\ pc' = "display"
    /\ UNCHANGED <<env, raised, backend, inps, k, date8_list, pbase_list, date12_list,
                   date12_list_keep, date12_list_drop, date8_list_drop, figs, saved, shown>>

\* lines 293-294
Display ==
    /\ pc = "display"
    /\ IF inps.disp_fig
       THEN /\ shown' = TRUE
            /\ trace' = Append(trace, "display")
       ELSE UNCHANGED <<shown, trace>>
    /\ pc' = "done"
    /\ UNCHANGED <<env, raised, backend, inps, k, date8_list, pbase_list, date12_list,
                   date12_list_keep, date12_list_drop, date8_list_drop, figs, saved, txtFile>>

Next ==
    \/ ParseArgs
    \/ LoadTemplate
    \/ ReadDatesH5
    \/ ReadDatesBaseline
    \/ ReadPairs
    \/ ReadDrop
    \/ ReadCoherence
    \/ FigBperpHistory
    \/ FigCoherenceMatrix
    \/ FigCoherenceHistory
    \/ FigNetwork
    \/ SaveList
    \/ Display

Spec == Init /\ [][Next]_vars

----------------------------------------------------------------------------
(* Properties *)

Executed(stage) == \E i \in 1..Len(trace) : trace[i] = stage

Produced(name) == \E i \in 1..Len(figs) : figs[i] = name

\* the value the coherence source reports for a pair
SourceValue(p) == files.coh_vals[index(files.coh_date12, p)]

SourceIsSuperset == ToSet(date12_list) \subseteq ToSet(files.coh_date12)

SomeValueDefined == \E i \in 1..Len(files.coh_vals) : ~isnan(files.coh_vals[i])

AllValuesNan == \A i \in 1..Len(files.coh_vals) : isnan(files.coh_vals[i])

\* C1: when the coherence source covers every pair of date12_list and has a
\* defined value, the coherence list after the coherence stage has the length
\* of date12_list and its i-th value is the source's value for date12_list[i].
C1_CoherenceAligned ==
    (Executed("read_coh") /\ SourceIsSuperset /\ SomeValueDefined)
        => /\ inps.coherence_list # None
           /\ Len(inps.coherence_list[1]) = Len(date12_list)
           /\ \A i \in 1..Len(date12_list) :
                  inps.coherence_list[1][i] = SourceValue(date12_list[i])

\* C2: when every value of the coherence source is nan, the coherence stage
\* raises nothing, leaves the coherence list None, and the baseline-history and
\* network figures are produced.
C2_AllNanDisables ==
    (Executed("read_coh") /\ AllValuesNan)
        => /\ raised = "none"
           /\ inps.coherence_list = None
           /\ (pc = "done" => Produced("BperpHistory") /\ Produced("Network"))

\* C3: when some pair of date12_list is missing from the coherence source, the
\* coherence list is None after the coherence stage, the run does not abort,
\* the coherence-matrix and coherence-history figures are never produced, and
\* the baseline-history and network figures are.
C3_NotSupersetDisables ==
    (Executed("read_coh") /\ ~SourceIsSuperset)
        => /\ inps.coherence_list = None
           /\ raised = "none"
           /\ ~Produced("CoherenceMatrix")
           /\ ~Produced("CoherenceHistory")
           /\ (pc \in {"fig_cohmat", "fig_cohhist", "fig_network", "save_list", "display", "done"}
                  => Produced("BperpHistory"))
           /\ (pc \in {"save_list", "display", "done"} => Produced("Network"))

C3_Witness ==
    /\ pc = "done"
    /\ Executed("read_coh")
    /\ ~SourceIsSuperset
    /\ SomeValueDefined
    /\ figs = <<"BperpHistory", "Network">>

DropComputed == Executed("read_drop") /\ raised = "none"

\* C4: for an HDF5 input, date12_list_drop lists, in ascending order and
\* without duplicates, exactly the pairs of date12_list that are not kept.
C4_DroppedPairs ==
    DropComputed
        => /\ \A i \in 1..Len(date12_list_drop) :
                  /\ date12_list_drop[i] \in ToSet(date12_list)
                  /\ date12_list_drop[i] \notin ToSet(date12_list_keep)
           /\ \A p \in ToSet(date12_list) :
                  p \in ToSet(date12_list_keep) \/ p \in ToSet(date12_list_drop)
           /\ \A i, j \in 1..Len(date12_list_drop) :
                  i < j => /\ date12_list_drop[i] # date12_list_drop[j]
                           /\ Date12Leq(date12_list_drop[i], date12_list_drop[j])

C4_Witness ==
    /\ DropComputed
    /\ date12_list_keep # << >>
    /\ date12_list_drop # << >>

\* C5: for an HDF5 input, a date is in date8_list_drop exactly when it is in
\* date8_list and is neither the first nor the second date of a kept pair.
C5_DroppedDates ==
    DropComputed
        => \A d \in Date8s \cup ToSet(date8_list) \cup ToSet(date8_list_drop) :
               d \in ToSet(date8_list_drop)
                   <=> (d \in ToSet(date8_list) /\ d \notin DatesOf(date12_list_keep))

C5_Witness ==
    /\ DropComputed
    /\ date12_list_keep # << >>
    /\ \E d \in ToSet(date8_list_drop) : d \in DatesOf(date12_list_drop)
    /\ \E d \in ToSet(date8_list) : d \in DatesOf(date12_list_drop) /\ d \notin ToSet(date8_list_drop)

UnsupportedInput == argv.ext = ".h5" /\ ~(files.FILE_TYPE \in multi_group_hdf5_file)

\* C6: for an HDF5 input of an unsupported FILE_TYPE main raises ValueError
\* before it reads dates, baselines, pairs, drop or coherence data and before
\* it produces or saves a figure or the text list.
C6_UnsupportedRaises ==
    /\ (UnsupportedInput /\ pc \notin {"parse", "template", "read_dates"})
           => raised = "ValueError"
    /\ raised = "ValueError"
           => /\ UnsupportedInput
              /\ ToSet(trace) \subseteq {"parse", "template"}
              /\ date8_list = << >> /\ pbase_list = << >> /\ date12_list = << >>
              /\ date12_list_drop = << >> /\ date8_list_drop = << >>
              /\ inps.coherence_list = None /\ inps.coh_date12_list = << >>
              /\ figs = << >> /\ saved = << >> /\ txtFile = None /\ ~shown

C6_Witness == raised = "ValueError" /\ files.date12 # << >> /\ pc = "error"

StageOrder == <<"parse", "template", "read_dates", "read_pairs", "read_drop", "read_coh",
                "fig_bperp", "fig_cohmat", "fig_cohhist", "fig_network", "save_list", "display">>

FigureOrder == <<"BperpHistory", "CoherenceMatrix", "CoherenceHistory", "Network">>

\* s lists elements of order, each at most once, in the order of order
InOrder(s, order) ==
    /\ ToSet(s) \subseteq ToSet(order)
    /\ \A i, j \in 1..Len(s) : i < j => index(order, s[i]) < index(order, s[j])

\* C7: the stages of a run execute at most once each and in the fixed order
\* parse, template, dates, pairs, drop, coherence, the four figures, text
\* list, display; the text list is never written before the network figure.
C7_LinearOrder ==
    /\ InOrder(trace, StageOrder)
    /\ InOrder(figs, FigureOrder)
    /\ (txtFile # None => Produced("Network"))

C7_Witness == pc = "done" /\ trace = StageOrder

\* C8: once read, date8_list, pbase_list and date12_list are never changed; the
\* coherence stage changes nothing but the coherence list (and the pair list
\* read with it); the saved text list is date12_list as it was read.
C8_LoadedImmutable ==
    [][/\ Executed("read_dates") => (date8_list' = date8_list /\ pbase_list' = pbase_list)
       /\ Executed("read_pairs") => date12_list' = date12_list
       /\ pc = "read_coh" =>
              /\ UNCHANGED <<date8_list, pbase_list, date12_list,
                             date12_list_keep, date12_list_drop, date8_list_drop, k>>
              /\ [inps' EXCEPT !.coherence_list = inps.coherence_list,
                               !.coh_date12_list = inps.coh_date12_list] = inps
       /\ txtFile' # None => txtFile' = Some(files.date12) /\ date12_list' = files.date12]_vars

C8_Witness ==
    /\ pc = "done"
    /\ txtFile = Some(date12_list)
    /\ date12_list_drop # << >>
    /\ Truthy(inps.coherence_list)
    /\ Len(inps.coherence_list[1]) < Len(files.coh_vals)

\* C9: when display is disabled, save_fig is true, every figure produced is
\* written (two files when no coherence list is available, four when one is)
\* and the display step is never executed.
C9_NoDisplaySaves ==
    (pc # "parse" /\ ~inps.disp_fig)
        => /\ inps.save_fig
           /\ saved = figs
           /\ ~shown
           /\ ~Executed("display")
           /\ (pc = "done" => Len(saved) = IF Truthy(inps.coherence_list) THEN 4 ELSE 2)

C9_Witness ==
    /\ pc = "done"
    /\ ~inps.disp_fig
    /\ ~argv.save_fig
    /\ Executed("template")
    /\ saved = FigureOrder

\* C10: the drop-annotation stage runs only when the file type k was read from
\* the HDF5 file; for every other extension it is skipped and both drop lists
\* stay empty.
C10_DropStageHasFileType ==
    /\ Executed("read_drop") => (k # "unbound" /\ raised # "NameError")
    /\ argv.ext # ".h5" =>
           (~Executed("read_drop") /\ date12_list_drop = << >> /\ date8_list_drop = << >>)

====
